---------------------------- MODULE Spec2Model ----------------------------
(***************************************************************************)
(* Model of riot-wrappers' thread module: the validated identifier         *)
(* KernelPID, the Status decode, wakeup/sleep, stack_stats and all_pids,   *)
(* for both backends (src/thread/riot_c.rs and src/thread/riot_rs.rs).     *)
(*                                                                         *)
(* The kernel behind the FFI (riot-sys) is the environment: its thread     *)
(* table sched_threads, the active pid and the primitives the wrapper      *)
(* calls are modelled after RIOT core's documented behaviour; every        *)
(* wrapper operation is translated from the Rust source.                   *)
(*                                                                         *)
(* Further parts: the MountIter of src/vfs.rs (MountSpec), the mutex-      *)
(* wrapped CoAP handler of src/coap_handler.rs (CoapSpec), and the token   *)
(* protocol of thread/tokenparts (TokenSpec), whose file is not among the  *)
(* sources and which is modelled after its description.                    *)
(***************************************************************************)
EXTENDS Integers, Sequences, FiniteSets, TLC

VARIABLES
    backend,          \* "riot_c" | "riot_rs": cfg(marker_riot_rs), fixed per build
    develhelp,        \* cfg(riot_develhelp), fixed per build
    sched_threads,    \* kernel thread table: slot -> NULL or the thread_t
    sched_active_pid, \* pid of the running thread, KERNEL_PID_UNDEF if none
    last,             \* the wrapper call made by the last step: [op, arg, ret, pre]
    woken,            \* history: slot -> a wakeup succeeded since its thread last slept
    held,             \* out-of-range KernelPID payloads the callers have obtained
    iter,             \* the all_pids() iterator: <<next, end>> of the remaining range
    yielded,          \* what the current iterator has yielded so far
    priority,         \* kernel: slot -> the priority field of its thread_t, 0 without a thread
    inflight,         \* a priority()/stack_stats() call between thread() and its field reads
    nmounts,          \* vfs: number of mounted file systems (the kernel's mount list)
    open_files,       \* vfs: mount -> open directories on it (the kernel's counter)
    miter,            \* vfs: the MountIter: "none" | "alive" | "dropped"
    mdir,             \* vfs: MountIter.dir, the vfs_DIR bytes
    mlast,            \* vfs: what the iterator's last next() returned
    mcloses,          \* vfs: vfs_closedir calls the iterator's Drop has made
    mbadclose,        \* vfs: vfs_closedir was called on a directory that is not open
    mutex,            \* coap: the Mutex around the inner handler: "unlocked" | "handler" | "other"
    hpc,              \* coap: where GcoapHandler::handle is in the current request
    request_data,     \* coap: what extract_request_data returned
    response,         \* coap: the response message as written so far
    locked_extract,   \* coap: try_lock succeeded in extract_request_data
    locked_build,     \* coap: try_lock succeeded in build_response
    tphase,           \* tokens: the thread: "unstarted" | "running" | "ended"
    ttokens,          \* tokens: the capability tokens the thread body holds
    tissued,          \* tokens: StartTokens handed out at the thread's last start
    tsetup,           \* tokens: one-time setup -> times it ran since the last start
    texit             \* tokens: what the thread body returned when it ended

threadVars == <<backend, develhelp, sched_threads, sched_active_pid, last,
                woken, held, iter, yielded, priority, inflight>>

mountVars == <<nmounts, open_files, miter, mdir, mlast, mcloses, mbadclose>>

coapVars == <<mutex, hpc, request_data, response, locked_extract, locked_build>>

tokenVars == <<tphase, ttokens, tissued, tsetup, texit>>

\* State of the modules other than thread
otherVars == <<mountVars, coapVars, tokenVars>>

vars == <<backend, develhelp, sched_threads, sched_active_pid, last, woken,
          held, iter, yielded, priority, inflight, otherVars>>

(***************************************************************************)
(* Bounds                                                                  *)
(***************************************************************************)
\* MAXTHREADS (riot_c) / THREADS_NUMOF (riot_rs): the number of thread slots
MaxThreads == 2

(***************************************************************************)
(* Constants of the C backend (pid_converted, status_converted).  Their    *)
(* values come from riot-sys: KERNEL_PID_UNDEF is 0 and the valid range    *)
(* starts right after it; the status codes are numbered in the order of    *)
(* the kernel's enum, STATUS_NOT_FOUND being "a cast -1".                  *)
(***************************************************************************)
KERNEL_PID_UNDEF == 0
KERNEL_PID_FIRST == KERNEL_PID_UNDEF + 1
KERNEL_PID_LAST == KERNEL_PID_FIRST + MaxThreads - 1
KERNEL_PID_ISR == KERNEL_PID_LAST + 1

THREADS_NUMOF == MaxThreads

STATUS_NOT_FOUND == -1
STATUS_STOPPED == 0
STATUS_SLEEPING == 1
STATUS_MUTEX_BLOCKED == 2
STATUS_RECEIVE_BLOCKED == 3
STATUS_SEND_BLOCKED == 4
STATUS_REPLY_BLOCKED == 5
STATUS_FLAG_BLOCKED_ANY == 6
STATUS_FLAG_BLOCKED_ALL == 7
STATUS_MBOX_BLOCKED == 8
STATUS_RUNNING == 9
STATUS_PENDING == 10

\* Raw codes the kernel may report that from_int does not name (a later
\* kernel's additional states)
UnrecognizedCodes == {11, 99}

RecognizedCodes ==
    {STATUS_STOPPED, STATUS_SLEEPING, STATUS_MUTEX_BLOCKED,
     STATUS_RECEIVE_BLOCKED, STATUS_SEND_BLOCKED, STATUS_REPLY_BLOCKED,
     STATUS_FLAG_BLOCKED_ANY, STATUS_FLAG_BLOCKED_ALL, STATUS_MBOX_BLOCKED,
     STATUS_RUNNING, STATUS_PENDING}

\* A slot of the thread table: the null pointer, or a thread_t, of which the
\* wrapper reads the status
NULL == <<>>
thread_t(status) == <<status>>
status_of(t) == t[1]

\* Slots of the thread table: sched_threads[KERNEL_PID_LAST + 1] in C
\* (slot 0 is never used), THREADS[THREADS_NUMOF] in riot-rs
Slots == 0 .. MaxThreads

\* Raw integers handed to the validator
RawPids == -1 .. (MaxThreads + 2)

(***************************************************************************)
(* Status::from_int                                                        *)
(***************************************************************************)
from_int_swapped(status) ==
    IF status = STATUS_STOPPED THEN "Stopped"
    ELSE IF status = STATUS_SLEEPING THEN "Sleeping"
    ELSE IF status = STATUS_MUTEX_BLOCKED THEN "MutexBlocked"
    ELSE IF status = STATUS_RECEIVE_BLOCKED THEN "ReceiveBlocked"
    ELSE IF status = STATUS_SEND_BLOCKED THEN "SendBlocked"
    ELSE IF status = STATUS_REPLY_BLOCKED THEN "ReplyBlocked"
    ELSE IF status = STATUS_FLAG_BLOCKED_ANY THEN "FlagBlockedAny"
    ELSE IF status = STATUS_FLAG_BLOCKED_ALL THEN "FlagBlockedAll"
    ELSE IF status = STATUS_MBOX_BLOCKED THEN "MboxBlocked"
    ELSE IF status = STATUS_RUNNING THEN "Pending"
    ELSE IF status = STATUS_PENDING THEN "Running"
    ELSE "Other"

from_int(status) ==
    IF status = STATUS_STOPPED THEN "Stopped"
    ELSE IF status = STATUS_SLEEPING THEN "Sleeping"
    ELSE IF status = STATUS_MUTEX_BLOCKED THEN "MutexBlocked"
    ELSE IF status = STATUS_RECEIVE_BLOCKED THEN "ReceiveBlocked"
    ELSE IF status = STATUS_SEND_BLOCKED THEN "SendBlocked"
    ELSE IF status = STATUS_REPLY_BLOCKED THEN "ReplyBlocked"
    ELSE IF status = STATUS_FLAG_BLOCKED_ANY THEN "FlagBlockedAny"
    ELSE IF status = STATUS_FLAG_BLOCKED_ALL THEN "FlagBlockedAll"
    ELSE IF status = STATUS_MBOX_BLOCKED THEN "MboxBlocked"
    ELSE IF status = STATUS_RUNNING THEN "Running"
    ELSE IF status = STATUS_PENDING THEN "Pending"
    ELSE "Other"


(***************************************************************************)
(* The kernel behind the FFI.  sched_threads[pid] is NULL for a slot that  *)
(* holds no thread and the thread's thread_t otherwise.                    *)
(***************************************************************************)
\* pid_is_valid (static inline, C): the bounds all_pids constructs from
pid_is_valid(pid) ==
    IF KERNEL_PID_FIRST <= pid /\ pid <= KERNEL_PID_LAST THEN 1 ELSE 0

\* Thread::pid_is_valid (riot-rs): Pid is unsigned, slots 0 .. THREADS_NUMOF-1
Thread_pid_is_valid(pid) == 0 <= pid /\ pid < THREADS_NUMOF

\* thread_get: the checked lookup the kernel's own primitives use
thread_get(pid) ==
    IF pid_is_valid(pid) # 0 THEN sched_threads[pid] ELSE NULL

\* thread_get_unchecked: the bare table read (slot 0 is always NULL)
thread_get_unchecked(pid) == sched_threads[pid]

\* thread_getstatus: the thread's status, STATUS_NOT_FOUND without a thread
thread_getstatus(pid) ==
    IF thread_get(pid) = NULL THEN STATUS_NOT_FOUND
    ELSE status_of(thread_get(pid))

\* thread_get_status(Thread::get(pid)) (riot-rs): the slot's raw state; a slot
\* without a thread reads as stopped
thread_get_status(pid) ==
    IF sched_threads[pid] = NULL THEN STATUS_STOPPED
    ELSE status_of(sched_threads[pid])

\* thread_wakeup's return value: 1 iff the thread exists and sleeps,
\* STATUS_NOT_FOUND if the pid is unknown or the thread is not sleeping
thread_wakeup_return(pid) ==
    IF thread_getstatus(pid) = STATUS_SLEEPING THEN 1 ELSE STATUS_NOT_FOUND

\* thread_wakeup's effect: a sleeping thread becomes pending
thread_wakeup_effect(pid) ==
    IF thread_getstatus(pid) = STATUS_SLEEPING
    THEN [sched_threads EXCEPT ![pid] = thread_t(STATUS_PENDING)]
    ELSE sched_threads

\* thread_getpid / Thread::current_pid
thread_getpid == sched_active_pid

(***************************************************************************)
(* Results                                                                 *)
(***************************************************************************)
Some(v) == <<"Some", v>>
None == <<"None", 0>>
Ok(v) == <<"Ok", v>>
Err(e) == <<"Err", e>>

(***************************************************************************)
(* KernelPID: the validator of each backend and the facade                 *)
(***************************************************************************)
riot_c_new_off_by_one(pid) ==
    IF KERNEL_PID_FIRST <= pid /\ pid <= KERNEL_PID_LAST + 1
    THEN Some(pid) ELSE None

riot_c_new(pid) ==
    IF pid_is_valid(pid) # 0 THEN Some(pid) ELSE None

riot_rs_new(pid) ==
    IF Thread_pid_is_valid(pid) THEN Some(pid) ELSE None

\* thread.rs: exactly one backend is compiled in and re-exported
new(pid) ==
    IF backend = "riot_c" THEN riot_c_new(pid) ELSE riot_rs_new(pid)

\* The bounds of the valid range, per backend
PID_FIRST == IF backend = "riot_c" THEN KERNEL_PID_FIRST ELSE 0
PID_LAST == IF backend = "riot_c" THEN KERNEL_PID_LAST ELSE THREADS_NUMOF - 1

\* Raw values of the backend's identifier type (riot-rs: Pid is unsigned)
RawPidsOf(b) == IF b = "riot_c" THEN RawPids ELSE {r \in RawPids : r >= 0}

(***************************************************************************)
(* KernelPID::status                                                       *)
(***************************************************************************)
riot_c_status_no_sentinel(pid) ==
    Ok(from_int(thread_getstatus(pid)))

riot_c_status(pid) ==
    LET status == thread_getstatus(pid) IN
    IF status = STATUS_NOT_FOUND
    THEN Err("NoSuchThread")
    ELSE Ok(from_int(status))

\* riot-rs: Status is the kernel's own enum, no decode; Err(()) for a bad pid
riot_rs_status(pid) ==
    IF Thread_pid_is_valid(pid) THEN Ok(thread_get_status(pid)) ELSE Err("()")

(***************************************************************************)
(* KernelPID::wakeup (C backend only: riot_rs.rs defines none)             *)
(***************************************************************************)
wakeup_result_zero_ok(success) ==
    IF success = 0 THEN Ok("()") ELSE Err("NoSuchThread")

wakeup_result_inverted(success) ==
    IF success = 1 THEN Err("NoSuchThread") ELSE Ok("()")

\* match success { 1 => Ok(()), _ => Err(NoSuchThread) }
wakeup_result(success) ==
    IF success = 1 THEN Ok("()") ELSE Err("NoSuchThread")

wakeup_target_any(self) ==
    IF \E q \in Slots : thread_getstatus(q) = STATUS_SLEEPING
    THEN CHOOSE q \in Slots : thread_getstatus(q) = STATUS_SLEEPING
    ELSE self

\* the pid handed to thread_wakeup: self.0
wakeup_target(self) == self

(***************************************************************************)
(* KernelPID::thread and KernelPID::stack_stats                            *)
(***************************************************************************)
\* riot_c: Err(NoSuchThread) for a null thread_t, else the pointer
riot_c_thread(pid) ==
    IF thread_get_unchecked(pid) = NULL
    THEN Err("NoSuchThread") ELSE Ok(pid)

\* riot_rs: Some(&Thread) for every valid pid, None otherwise
riot_rs_thread(pid) ==
    IF Thread_pid_is_valid(pid) THEN Some(pid) ELSE None

riot_c_stack_stats(pid) ==
    IF riot_c_thread(pid)[1] = "Err" THEN Err("NoSuchThread")
    ELSE IF develhelp THEN Ok("StackStats")
    ELSE Err("InformationUnavailable")

\* riot_rs: no cfg(riot_develhelp) branch (the TODO at the end of the body)
riot_rs_stack_stats(pid) ==
    IF riot_rs_thread(pid) = None THEN Err("NoSuchThread")
    ELSE Ok("StackStats")

stack_stats(pid) ==
    IF backend = "riot_c" THEN riot_c_stack_stats(pid)
    ELSE riot_rs_stack_stats(pid)

(***************************************************************************)
(* KernelPID::get_name and KernelPID::priority                             *)
(***************************************************************************)
\* thread_getname: the thread's name, NULL without a thread and in a build
\* without thread names (they come with DEVELHELP)
thread_getname(pid) ==
    IF develhelp /\ thread_get(pid) # NULL THEN <<"name">> ELSE NULL

\* ptr.to_lifetimed_cstr()?.to_str().ok(): None for a null pointer and for a
\* name that is not UTF-8
riot_c_get_name(pid, utf8) ==
    LET ptr == thread_getname(pid) IN
    IF ptr = NULL THEN None
    ELSE IF utf8 THEN Some(ptr[1]) ELSE None

\* riot_rs: only for a valid pid; name() is None for a slot without a name
riot_rs_get_name(pid, utf8) ==
    IF Thread_pid_is_valid(pid)
    THEN IF sched_threads[pid] = NULL THEN None
         ELSE IF utf8 THEN Some("name") ELSE None
    ELSE None

get_name(pid, utf8) ==
    IF backend = "riot_c" THEN riot_c_get_name(pid, utf8)
    ELSE riot_rs_get_name(pid, utf8)

\* Ok(unsafe { (*thread).priority }): the byte the pointer leads to
riot_c_priority(thread) == Ok(thread.prio)

\* thread_measure_stack_free((*thread).stack_start): walks the words from
\* stack_start; with a stack_start read from memory that was written over
\* the walk starts at an arbitrary address and may fault
thread_measure_stack_free(mem) ==
    IF mem = "reused" THEN {"free", "fault"} ELSE {"free"}

\* the develhelp branch of stack_stats after thread() succeeded
riot_c_stack_stats_read(outcome) ==
    IF outcome = "fault" THEN <<"Fault", "thread_measure_stack_free">>
    ELSE Ok("StackStats")

(***************************************************************************)
(* What each backend's module defines on and around KernelPID              *)
(***************************************************************************)
riot_c_operations ==
    {"new", "all_pids", "get_name", "status", "wakeup", "priority",
     "stack_stats", "get_pid", "sleep"}

riot_rs_operations ==
    {"new", "get_name", "status", "stack_stats", "all_pids", "sleep", "get_pid"}

(***************************************************************************)
(* get_pid: KernelPID(thread_getpid()), not through new                    *)
(***************************************************************************)
get_pid == thread_getpid


(***************************************************************************)
(* KernelPID::all_pids: a range mapped through new(..).expect(..)          *)
(***************************************************************************)
riot_c_all_pids_from_undef == <<KERNEL_PID_UNDEF, KERNEL_PID_LAST>>

\* (KERNEL_PID_FIRST..=KERNEL_PID_LAST)
riot_c_all_pids == <<KERNEL_PID_FIRST, KERNEL_PID_LAST>>

riot_rs_all_pids_inclusive == <<0, THREADS_NUMOF>>

\* (0..(THREADS_NUMOF))
riot_rs_all_pids == <<0, THREADS_NUMOF - 1>>

all_pids == IF backend = "riot_c" THEN riot_c_all_pids ELSE riot_rs_all_pids

NoIter == <<>>

(***************************************************************************)
(* vfs.rs: MountIter, the lending iterator over all mount points           *)
(***************************************************************************)
\* Mounted file systems the model goes up to
MaxMounts == 3

Mounts == 1 .. MaxMounts

\* A vfs_DIR: all-zero bytes, an open directory on mount mp, or what
\* vfs_iterate_mount_dirs leaves behind when it returns false (the directory
\* is closed, the bytes still name mount mp)
zeroed == [st |-> "zeroed", mp |-> 0]
open_on(mp) == [st |-> "open", mp |-> mp]
closed_on(mp) == [st |-> "closed", mp |-> mp]

\* vfs_iterate_mount_dirs(dir): closes the directory dir holds, opens the
\* root of the next mount and returns true, or returns false at the end of
\* the list (dir is then closed, its contents unspecified).  The value is
\* <<returned, dir afterwards>>
vfs_iterate_mount_dirs(dir) ==
    IF dir.mp < nmounts
    THEN {<<TRUE, open_on(dir.mp + 1)>>}
    ELSE IF dir.mp = 0 THEN {<<FALSE, zeroed>>}
    ELSE {<<FALSE, closed_on(dir.mp)>>, <<FALSE, zeroed>>}

\* the kernel's open_files counters after vfs_iterate_mount_dirs(dir)
vfs_iterate_mount_dirs_effect(dir) ==
    [m \in Mounts |->
        IF dir.st = "open" /\ m = dir.mp THEN open_files[m] - 1
        ELSE IF dir.mp < nmounts /\ m = dir.mp + 1 THEN open_files[m] + 1
        ELSE open_files[m]]

\* the kernel's open_files counters after vfs_closedir(dir)
vfs_closedir(dir) ==
    [m \in Mounts |->
        IF dir.st = "open" /\ m = dir.mp THEN open_files[m] - 1
        ELSE open_files[m]]

MountIter_next_keeps_dir(dir) == dir

\* MountIter::next, else branch: self.dir = MaybeUninit::zeroed()
MountIter_next_reset(dir) == zeroed

\* MountIter::is_zeroed: every byte of dir is 0
is_zeroed(dir) == dir = zeroed

\* No next() call was made on the iterator yet
NoNext == <<"NoNext", 0>>

MountInit ==
    /\ nmounts = 0
    /\ open_files = [m \in Mounts |-> 0]
    /\ miter = "none"
    /\ mdir = zeroed
    /\ mlast = NoNext
    /\ mcloses = 0
    /\ mbadclose = FALSE

(***************************************************************************)
(* coap_handler.rs: Handler for &dyn MutexedHandler<H>                     *)
(***************************************************************************)
\* coap_numbers::code::SERVICE_UNAVAILABLE, 5.03
SERVICE_UNAVAILABLE == 163

\* Codes the inner handler answers with (2.05 Content, 4.04 Not Found)
InnerCodes == {69, 132}

\* What the inner handler extracts from a request (H::RequestData)
RequestDatas == {"GET", "PUT", "POST"}

\* MutexedHandler::try_lock -> Mutex::try_lock: the guard iff the mutex is free
try_lock(m) == IF m = "unlocked" THEN Some("guard") ELSE None

mutex_after_extract_guard_kept == "handler"

\* extract_request_data: the guard moved into the closure of map() is dropped
\* when the closure returns
mutex_after_extract == "unlocked"

\* The response message before anything is written to it
NoResponse == [code |-> 0, payload |-> ""]

\* build_response's tail: set_code(SERVICE_UNAVAILABLE), set_payload(b"")
service_unavailable == [code |-> SERVICE_UNAVAILABLE, payload |-> ""]

CoapInit ==
    /\ mutex = "unlocked"
    /\ hpc = "idle"
    /\ request_data = None
    /\ response = NoResponse
    /\ locked_extract = FALSE
    /\ locked_build = FALSE

(***************************************************************************)
(* thread/tokenparts: StartToken, the capability tokens and EndToken       *)
(***************************************************************************)
\* Calls of one setup operation the model follows a thread up to
MaxSetupCalls == 2

\* The one-time setups a thread's token still allows
Capabilities == {"message_queue", "message_semantics", "flag_semantics"}

\* Setups after which a thread can no longer end
TeardownIncompatible == {"message_queue"}

\* StartToken: nothing phase-limited has happened yet
StartToken == Capabilities

setup_token_returns_equal(token, c) == token

\* a setup consumes the token and returns one without the capability used
setup_token(token, c) == token \ {c}

\* EndToken can be had from a token whose teardown-incompatible
\* capabilities are used up or forfeited
can_end(token) == token \cap TeardownIncompatible = {}

TokenInit ==
    /\ tphase = "unstarted"
    /\ ttokens = <<>>
    /\ tissued = 0
    /\ tsetup = [c \in Capabilities |-> 0]
    /\ texit = "none"

(***************************************************************************)
(* State                                                                   *)
(***************************************************************************)
\* The slots that can hold a thread in the selected backend
ThreadSlots == {p \in Slots : new(p) # None}

\* The status a caller would observe for a slot, before a call
PreStatus(pid) ==
    IF pid \in Slots /\ sched_threads[pid] # NULL
    THEN status_of(sched_threads[pid]) ELSE STATUS_NOT_FOUND

\* The KernelPID values a caller can hold: every valid one (new is callable
\* at any time), what get_pid returned, and with riot_rs's public field any
\* value of the type
Handles ==
    IF backend = "riot_c" THEN ThreadSlots \cup held
    ELSE RawPidsOf(backend)

\* sched_active_pid while no thread runs (idle, or an interrupt taken then):
\* KERNEL_PID_UNDEF in C; riot-rs has no such pid, -1 stands for "none"
NoActiveThread == IF backend = "riot_c" THEN KERNEL_PID_UNDEF ELSE -1

Call(op, arg, ret, pre) == [op |-> op, arg |-> arg, ret |-> ret, pre |-> pre]

\* last after a step of the kernel: no wrapper call was made
NoCall == Call("none", 0, None, STATUS_NOT_FOUND)

\* The priority the kernel's threads are created with by default
THREAD_PRIORITY_MAIN == 7

\* Priorities thread_create is called with
ThreadPriorities == {THREAD_PRIORITY_MAIN - 1, THREAD_PRIORITY_MAIN}

\* What a byte of memory that was written over can read as
OverwrittenBytes == {0, 255}

\* The thread_t a `*const thread_t` obtained by thread() points to: "live"
\* while its thread exists, "stale" once the thread has ended (the memory,
\* part of the thread's stack, is as the thread left it), "reused" once the
\* owner of the stack has written over it
MemStates == {"live", "stale", "reused"}

\* No priority()/stack_stats() call is between its two steps
NoFlight == [op |-> "none", arg |-> 0, prio |-> 0, mem |-> "live"]

Init ==
    /\ backend \in {"riot_c", "riot_rs"}
    /\ develhelp \in BOOLEAN
    /\ sched_threads = [p \in Slots |-> NULL]
    /\ sched_active_pid = NoActiveThread
    /\ last = NoCall
    /\ woken = [p \in Slots |-> FALSE]
    /\ held = {}
    /\ iter = NoIter
    /\ yielded = <<>>
    /\ priority = [p \in Slots |-> 0]
    /\ inflight = NoFlight
    /\ MountInit
    /\ CoapInit
    /\ TokenInit

(***************************************************************************)
(* The kernel's own steps (the environment)                                *)
(***************************************************************************)
\* Every raw status code a thread can be in
AllCodes == RecognizedCodes \cup UnrecognizedCodes

\* Codes of a thread that is neither runnable nor sleeping
BlockedCodes == AllCodes \ {STATUS_SLEEPING, STATUS_RUNNING, STATUS_PENDING}

\* The blocked states the kernel's steps below move threads into; the kernel
\* treats all of BlockedCodes alike, and StatusSpec covers every code
KernelBlockCodes == {STATUS_MUTEX_BLOCKED, STATUS_FLAG_BLOCKED_ANY}

\* thread_create: a free slot gets a thread, pending or (THREAD_CREATE_SLEEPING)
\* sleeping
KThreadCreate(p, s, prio) ==
    /\ sched_threads[p] = NULL
    /\ sched_threads' = [sched_threads EXCEPT ![p] = thread_t(s)]
    /\ priority' = [priority EXCEPT ![p] = prio]
    /\ woken' = [woken EXCEPT ![p] = FALSE]
    /\ last' = NoCall
    /\ UNCHANGED <<backend, develhelp, sched_active_pid, held, iter, yielded>>
    /\ UNCHANGED <<inflight, otherVars>>

\* sched_run: a pending thread becomes the running one
KSchedule(p) ==
    /\ PreStatus(p) = STATUS_PENDING
    /\ sched_threads' =
         [q \in Slots |->
            IF q = p THEN thread_t(STATUS_RUNNING)
            ELSE IF PreStatus(q) = STATUS_RUNNING THEN thread_t(STATUS_PENDING)
            ELSE sched_threads[q]]
    /\ sched_active_pid' = p
    /\ last' = NoCall
    /\ UNCHANGED <<backend, develhelp, woken, held, iter, yielded>>
    /\ UNCHANGED <<priority, inflight, otherVars>>

\* the running thread blocks (mutex, msg, flags, mbox, ...) or stops
KBlock(s) ==
    /\ PreStatus(sched_active_pid) = STATUS_RUNNING
    /\ sched_threads' = [sched_threads EXCEPT ![sched_active_pid] = thread_t(s)]
    /\ sched_active_pid' = NoActiveThread
    /\ last' = NoCall
    /\ UNCHANGED <<backend, develhelp, woken, held, iter, yielded>>
    /\ UNCHANGED <<priority, inflight, otherVars>>

\* what a thread blocked on arrives: it becomes pending
KUnblock(p) ==
    /\ PreStatus(p) \in BlockedCodes
    /\ sched_threads' = [sched_threads EXCEPT ![p] = thread_t(STATUS_PENDING)]
    /\ last' = NoCall
    /\ UNCHANGED <<backend, develhelp, sched_active_pid, woken, held, iter, yielded>>
    /\ UNCHANGED <<priority, inflight, otherVars>>

\* sched_task_exit: the running thread ends, its slot is free for reuse
KThreadExit ==
    /\ PreStatus(sched_active_pid) = STATUS_RUNNING
    /\ sched_threads' = [sched_threads EXCEPT ![sched_active_pid] = NULL]
    /\ woken' = [woken EXCEPT ![sched_active_pid] = FALSE]
    /\ priority' = [priority EXCEPT ![sched_active_pid] = 0]
    /\ inflight' =
         IF inflight.op # "none" /\ inflight.arg = sched_active_pid
            /\ inflight.mem = "live"
         THEN [inflight EXCEPT !.mem = "stale"] ELSE inflight
    /\ sched_active_pid' = NoActiveThread
    /\ last' = NoCall
    /\ UNCHANGED <<backend, develhelp, held, iter, yielded>>
    /\ UNCHANGED otherVars

\* the owner of an ended thread's stack writes over it (the stack is a
\* borrowed byte slice that returns to its owner when the thread is reaped)
KReuseMemory(byte) ==
    /\ inflight.op # "none"
    /\ inflight.mem = "stale"
    /\ inflight' = [inflight EXCEPT !.mem = "reused", !.prio = byte]
    /\ last' = NoCall
    /\ UNCHANGED <<backend, develhelp, sched_threads, sched_active_pid, woken,
                   held, iter, yielded, priority, otherVars>>


(***************************************************************************)
(* The wrapper's operations, each called from a thread or from an ISR      *)
(***************************************************************************)
New(r) ==
    /\ last' = Call("new", r, new(r), STATUS_NOT_FOUND)
    /\ UNCHANGED <<backend, develhelp, sched_threads, sched_active_pid, woken,
                   held, iter, yielded>>
    /\ UNCHANGED <<priority, inflight, otherVars>>

\* riot_rs.rs: pub struct KernelPID(pub Pid) -- the tuple constructor is public
Construct(r) ==
    /\ backend = "riot_rs"
    /\ last' = Call("KernelPID", r, Some(r), STATUS_NOT_FOUND)
    /\ UNCHANGED <<backend, develhelp, sched_threads, sched_active_pid, woken,
                   held, iter, yielded>>
    /\ UNCHANGED <<priority, inflight, otherVars>>

GetPid ==
    /\ backend = "riot_rs" => sched_active_pid # NoActiveThread
    /\ last' = Call("get_pid", 0, Some(get_pid), STATUS_NOT_FOUND)
    /\ held' = IF backend = "riot_c" /\ new(get_pid) = None
               THEN held \cup {get_pid} ELSE held
    /\ UNCHANGED <<backend, develhelp, sched_threads, sched_active_pid, woken,
                   iter, yielded>>
    /\ UNCHANGED <<priority, inflight, otherVars>>

status(pid) ==
    IF backend = "riot_c" THEN riot_c_status(pid) ELSE riot_rs_status(pid)

GetStatus(p) ==
    /\ last' = Call("status", p, status(p), PreStatus(p))
    /\ UNCHANGED <<backend, develhelp, sched_threads, sched_active_pid, woken,
                   held, iter, yielded>>
    /\ UNCHANGED <<priority, inflight, otherVars>>

Wakeup(p) ==
    /\ backend = "riot_c"
    /\ LET success == thread_wakeup_return(wakeup_target(p)) IN
         /\ last' = Call("wakeup", p, wakeup_result(success), PreStatus(p))
         /\ woken' = IF success = 1
                     THEN [woken EXCEPT ![wakeup_target(p)] = TRUE] ELSE woken
    /\ sched_threads' = thread_wakeup_effect(wakeup_target(p))
    /\ UNCHANGED <<backend, develhelp, sched_active_pid, held, iter, yielded>>
    /\ UNCHANGED <<priority, inflight, otherVars>>

StackStats(p) ==
    /\ last' = Call("stack_stats", p, stack_stats(p), PreStatus(p))
    /\ UNCHANGED <<backend, develhelp, sched_threads, sched_active_pid, woken,
                   held, iter, yielded>>
    /\ UNCHANGED <<priority, inflight, otherVars>>

GetName(p, utf8) ==
    /\ last' = Call("get_name", p, get_name(p, utf8), PreStatus(p))
    /\ UNCHANGED <<backend, develhelp, sched_threads, sched_active_pid, woken,
                   held, iter, yielded>>
    /\ UNCHANGED <<priority, inflight, otherVars>>

\* priority() run without interruption: both statements in one step
Priority(p) ==
    /\ backend = "riot_c"
    /\ last' = Call("priority", p,
                    IF riot_c_thread(p)[1] = "Err" THEN riot_c_thread(p)
                    ELSE riot_c_priority([prio |-> priority[p]]),
                    PreStatus(p))
    /\ UNCHANGED <<backend, develhelp, sched_threads, sched_active_pid, woken,
                   held, iter, yielded>>
    /\ UNCHANGED <<priority, inflight, otherVars>>

\* priority(), first statement: let thread = self.thread()?;
PriorityBegin(p) ==
    /\ backend = "riot_c"
    /\ inflight = NoFlight
    /\ IF riot_c_thread(p)[1] = "Err"
       THEN /\ last' = Call("priority", p, riot_c_thread(p), PreStatus(p))
            /\ UNCHANGED inflight
       ELSE /\ last' = Call("thread", p, riot_c_thread(p), PreStatus(p))
            /\ inflight' = [op |-> "priority", arg |-> p,
                            prio |-> priority[p], mem |-> "live"]
    /\ UNCHANGED <<backend, develhelp, sched_threads, sched_active_pid, woken,
                   held, iter, yielded, priority, otherVars>>

\* priority(), second statement: the read through the pointer
PriorityEnd ==
    /\ inflight.op = "priority"
    /\ last' = Call("priority", inflight.arg, riot_c_priority(inflight),
                    PreStatus(inflight.arg))
    /\ inflight' = NoFlight
    /\ UNCHANGED <<backend, develhelp, sched_threads, sched_active_pid, woken,
                   held, iter, yielded, priority, otherVars>>

\* stack_stats() with cfg(riot_develhelp), first statement
StackStatsBegin(p) ==
    /\ backend = "riot_c"
    /\ develhelp
    /\ inflight = NoFlight
    /\ IF riot_c_thread(p)[1] = "Err"
       THEN /\ last' = Call("stack_stats", p, riot_c_stack_stats(p), PreStatus(p))
            /\ UNCHANGED inflight
       ELSE /\ last' = Call("thread", p, riot_c_thread(p), PreStatus(p))
            /\ inflight' = [op |-> "stack_stats", arg |-> p,
                            prio |-> priority[p], mem |-> "live"]
    /\ UNCHANGED <<backend, develhelp, sched_threads, sched_active_pid, woken,
                   held, iter, yielded, priority, otherVars>>

\* stack_stats() with cfg(riot_develhelp): the three field reads and the walk
StackStatsEnd ==
    /\ inflight.op = "stack_stats"
    /\ \E outcome \in thread_measure_stack_free(inflight.mem) :
         last' = Call("stack_stats", inflight.arg,
                      riot_c_stack_stats_read(outcome), PreStatus(inflight.arg))
    /\ inflight' = NoFlight
    /\ UNCHANGED <<backend, develhelp, sched_threads, sched_active_pid, woken,
                   held, iter, yielded, priority, otherVars>>

sleep_returns_at_once == sched_threads

\* thread_sleep / Thread::sleep: the calling thread is put to sleep
sleep == [sched_threads EXCEPT ![sched_active_pid] = thread_t(STATUS_SLEEPING)]

Sleep ==
    /\ PreStatus(sched_active_pid) = STATUS_RUNNING
    /\ sched_threads' = sleep
    /\ IF status_of(sched_threads'[sched_active_pid]) = STATUS_SLEEPING
       THEN /\ sched_active_pid' = NoActiveThread
            /\ woken' = [woken EXCEPT ![sched_active_pid] = FALSE]
       ELSE UNCHANGED <<sched_active_pid, woken>>
    /\ last' = Call("sleep", sched_active_pid, Ok("()"), STATUS_RUNNING)
    /\ UNCHANGED <<backend, develhelp, held, iter, yielded>>
    /\ UNCHANGED <<priority, inflight, otherVars>>

AllPids ==
    /\ iter' = all_pids
    /\ yielded' = <<>>
    /\ last' = Call("all_pids", 0, None, STATUS_NOT_FOUND)
    /\ UNCHANGED <<backend, develhelp, sched_threads, sched_active_pid, woken,
                   held>>
    /\ UNCHANGED <<priority, inflight, otherVars>>

\* Iterator::next of the mapped range
IterNext ==
    /\ iter # NoIter
    /\ IF iter[1] <= iter[2]
       THEN LET i == iter[1] IN
            IF new(i) = None
            THEN \* expect("Should be valid by construction") panics
                 /\ last' = Call("next", i, <<"Panic", i>>, STATUS_NOT_FOUND)
                 /\ iter' = NoIter
                 /\ UNCHANGED yielded
            ELSE /\ last' = Call("next", i, new(i), STATUS_NOT_FOUND)
                 /\ iter' = <<i + 1, iter[2]>>
                 /\ yielded' = Append(yielded, new(i)[2])
       ELSE /\ last' = Call("next", 0, None, STATUS_NOT_FOUND)
            /\ UNCHANGED <<iter, yielded>>
    /\ UNCHANGED <<backend, develhelp, sched_threads, sched_active_pid, woken,
                   held>>
    /\ UNCHANGED <<priority, inflight, otherVars>>

Kernel ==
    \/ \E p \in ThreadSlots, s \in {STATUS_PENDING, STATUS_SLEEPING} :
         KThreadCreate(p, s, THREAD_PRIORITY_MAIN)
    \/ \E p \in ThreadSlots : KSchedule(p)
    \/ \E s \in KernelBlockCodes : KBlock(s)
    \/ \E p \in ThreadSlots : KUnblock(p)
    \/ KThreadExit

Wrapper ==
    \/ \E r \in RawPidsOf(backend) : New(r)
    \/ \E r \in RawPidsOf(backend) : Construct(r)
    \/ GetPid
    \/ \E p \in Handles : GetStatus(p)
    \/ \E p \in Handles : Wakeup(p)
    \/ \E p \in Handles : StackStats(p)
    \/ \E p \in Handles, utf8 \in BOOLEAN : GetName(p, utf8)
    \/ \E p \in Handles : Priority(p)
    \/ Sleep

\* The enumeration of identifiers: all_pids and the iterator it returns
Enumeration ==
    \/ \E r \in RawPidsOf(backend) : New(r)
    \/ \E r \in RawPidsOf(backend) : Construct(r)
    \/ AllPids
    \/ IterNext

\* The queries that read a thread's data, the two-statement ones step by step
Queries ==
    \/ \E p \in Handles : GetStatus(p)
    \/ \E p \in Handles : Wakeup(p)
    \/ \E p \in Handles, utf8 \in BOOLEAN : GetName(p, utf8)
    \/ \E p \in Handles : PriorityBegin(p)
    \/ PriorityEnd
    \/ \E p \in Handles : StackStatsBegin(p)
    \/ StackStatsEnd

\* What else the kernel and the owners of stacks do while a query runs
QueryKernel ==
    \/ \E p \in ThreadSlots, s \in {STATUS_PENDING, STATUS_SLEEPING},
          prio \in ThreadPriorities : KThreadCreate(p, s, prio)
    \/ \E byte \in OverwrittenBytes : KReuseMemory(byte)

\* The thread table under the kernel's steps and the wrapper's calls
Next == Kernel \/ Wrapper

Spec == Init /\ [][Next]_vars

\* The same under a fair scheduler: a pending thread is eventually run
FairSpec == Spec /\ \A p \in Slots : WF_vars(KSchedule(p))

\* Every operation of the thread module against the kernel's steps
FrameNext == Next \/ AllPids \/ IterNext

FrameSpec == Init /\ [][FrameNext]_vars

\* The fallible queries of KernelPID, interleaved with the kernel at each statement
QueryNext == Kernel \/ QueryKernel \/ Queries

QuerySpec == Init /\ [][QueryNext]_vars

\* The identifier enumeration alone (it reads no kernel state)
IterSpec == Init /\ [][Enumeration]_vars

\* The status query over every thread table the kernel can present: each
\* slot empty or holding a thread in any raw status, at most one running
StatusInit ==
    /\ backend \in {"riot_c", "riot_rs"}
    /\ develhelp \in BOOLEAN
    /\ sched_threads \in [Slots -> {NULL} \cup {thread_t(c) : c \in AllCodes}]
    /\ \A p \in Slots \ ThreadSlots : sched_threads[p] = NULL
    /\ Cardinality({p \in Slots : PreStatus(p) = STATUS_RUNNING}) <= 1
    /\ sched_active_pid \in ThreadSlots \cup {NoActiveThread}
    /\ \A p \in Slots : PreStatus(p) = STATUS_RUNNING => sched_active_pid = p
    /\ sched_active_pid # NoActiveThread
         => PreStatus(sched_active_pid) = STATUS_RUNNING
    /\ last = NoCall
    /\ woken = [p \in Slots |-> FALSE]
    /\ held = {}
    /\ iter = NoIter
    /\ yielded = <<>>
    /\ priority = [p \in Slots |->
                     IF sched_threads[p] = NULL THEN 0 ELSE THREAD_PRIORITY_MAIN]
    /\ inflight = NoFlight
    /\ MountInit
    /\ CoapInit
    /\ TokenInit

StatusNext == \E p \in Handles : GetStatus(p)

StatusSpec == StatusInit /\ [][StatusNext]_vars


(***************************************************************************)
(* vfs.rs: the steps of a MountIter and of the mount list                  *)
(***************************************************************************)
\* vfs_mount: one more file system at the end of the mount list
KMount ==
    /\ nmounts < MaxMounts
    /\ nmounts' = nmounts + 1
    /\ UNCHANGED <<open_files, miter, mdir, mlast, mcloses, mbadclose>>
    /\ UNCHANGED <<threadVars, coapVars, tokenVars>>

\* Mount::all(): a MountIter with a zeroed dir
MountAll ==
    /\ miter # "alive"
    /\ miter' = "alive"
    /\ mdir' = zeroed
    /\ mlast' = NoNext
    /\ mcloses' = 0
    /\ UNCHANGED <<nmounts, open_files, mbadclose>>
    /\ UNCHANGED <<threadVars, coapVars, tokenVars>>

\* MountIter::next
MountNext ==
    /\ miter = "alive"
    /\ \E r \in vfs_iterate_mount_dirs(mdir) :
         IF r[1]
         THEN /\ mdir' = r[2]
              /\ mlast' = Some(r[2].mp)
         ELSE /\ mdir' = MountIter_next_reset(r[2])
              /\ mlast' = None
    /\ open_files' = vfs_iterate_mount_dirs_effect(mdir)
    /\ mbadclose' = (mbadclose \/ mdir.st = "closed")
    /\ UNCHANGED <<nmounts, miter, mcloses>>
    /\ UNCHANGED <<threadVars, coapVars, tokenVars>>

\* Drop for MountIter
MountDrop ==
    /\ miter = "alive"
    /\ miter' = "dropped"
    /\ IF ~is_zeroed(mdir)
       THEN /\ open_files' = vfs_closedir(mdir)
            /\ mcloses' = mcloses + 1
            /\ mbadclose' = (mbadclose \/ mdir.st # "open")
       ELSE UNCHANGED <<open_files, mcloses, mbadclose>>
    /\ UNCHANGED <<nmounts, mdir, mlast>>
    /\ UNCHANGED <<threadVars, coapVars, tokenVars>>

MountNextStep == KMount \/ MountAll \/ MountNext \/ MountDrop

MountSpec == Init /\ [][MountNextStep]_vars


(***************************************************************************)
(* coap_handler.rs: one request through GcoapHandler::handle, with another *)
(* party using the same mutex                                              *)
(***************************************************************************)
\* another thread takes the mutex (it waits while the mutex is held)
OtherLock ==
    /\ mutex = "unlocked"
    /\ mutex' = "other"
    /\ UNCHANGED <<hpc, request_data, response, locked_extract, locked_build>>
    /\ UNCHANGED <<threadVars, mountVars, tokenVars>>

OtherUnlock ==
    /\ mutex = "other"
    /\ mutex' = "unlocked"
    /\ UNCHANGED <<hpc, request_data, response, locked_extract, locked_build>>
    /\ UNCHANGED <<threadVars, mountVars, tokenVars>>

\* extract_request_data: self.try_lock()
ExtractTryLock ==
    /\ hpc = "idle"
    /\ IF try_lock(mutex) # None
       THEN /\ mutex' = "handler"
            /\ hpc' = "extracting"
            /\ locked_extract' = TRUE
            /\ UNCHANGED request_data
       ELSE /\ hpc' = "extracted"
            /\ request_data' = None
            /\ locked_extract' = FALSE
            /\ UNCHANGED mutex
    /\ UNCHANGED <<response, locked_build>>
    /\ UNCHANGED <<threadVars, mountVars, tokenVars>>

\* extract_request_data: .map(|mut h| h.extract_request_data(request))
ExtractInner(d) ==
    /\ hpc = "extracting"
    /\ request_data' = Some(d)
    /\ mutex' = mutex_after_extract
    /\ hpc' = "extracted"
    /\ UNCHANGED <<response, locked_extract, locked_build>>
    /\ UNCHANGED <<threadVars, mountVars, tokenVars>>

\* build_response: if let Some(r) = request { if let Some(mut s) = try_lock()
\* ..., else the Service Unavailable tail
BuildTryLock ==
    /\ hpc = "extracted"
    /\ IF request_data # None /\ try_lock(mutex) # None
       THEN /\ mutex' = "handler"
            /\ hpc' = "building"
            /\ locked_build' = TRUE
            /\ UNCHANGED response
       ELSE /\ response' = service_unavailable
            /\ hpc' = "responded"
            /\ locked_build' = FALSE
            /\ UNCHANGED mutex
    /\ UNCHANGED <<request_data, locked_extract>>
    /\ UNCHANGED <<threadVars, mountVars, tokenVars>>

\* build_response: return s.build_response(response, r)
BuildInner(c) ==
    /\ hpc = "building"
    /\ response' = [code |-> c, payload |-> "inner"]
    /\ mutex' = "unlocked"
    /\ hpc' = "responded"
    /\ UNCHANGED <<request_data, locked_extract, locked_build>>
    /\ UNCHANGED <<threadVars, mountVars, tokenVars>>

\* handle returns; gcoap calls it again for the next request
NextRequest ==
    /\ hpc = "responded"
    /\ hpc' = "idle"
    /\ request_data' = None
    /\ response' = NoResponse
    /\ locked_extract' = FALSE
    /\ locked_build' = FALSE
    /\ UNCHANGED mutex
    /\ UNCHANGED <<threadVars, mountVars, tokenVars>>

\* What the handler does next at a try_lock
HandlerTryLock == ExtractTryLock \/ BuildTryLock

CoapNext ==
    \/ OtherLock
    \/ OtherUnlock
    \/ ExtractTryLock
    \/ \E d \in RequestDatas : ExtractInner(d)
    \/ BuildTryLock
    \/ \E c \in InnerCodes : BuildInner(c)
    \/ NextRequest

CoapSpec == Init /\ [][CoapNext]_vars


(***************************************************************************)
(* thread/tokenparts: the life of one thread started with tokens           *)
(***************************************************************************)
\* the spawn primitive starts the thread body with one StartToken
TStart ==
    /\ tphase \in {"unstarted", "ended"}
    /\ tphase' = "running"
    /\ ttokens' = <<StartToken>>
    /\ tissued' = 1
    /\ tsetup' = [c \in Capabilities |-> 0]
    /\ texit' = "none"
    /\ UNCHANGED <<threadVars, mountVars, coapVars>>

\* a one-time setup: takes a token holding the capability by value
TSetup(i, c) ==
    /\ tphase = "running"
    /\ c \in ttokens[i]
    /\ tsetup[c] < MaxSetupCalls
    /\ ttokens' = [ttokens EXCEPT ![i] = setup_token(@, c)]
    /\ tsetup' = [tsetup EXCEPT ![c] = @ + 1]
    /\ UNCHANGED <<tphase, tissued, texit>>
    /\ UNCHANGED <<threadVars, mountVars, coapVars>>

\* a capability is given up without running its setup
TForfeit(i, c) ==
    /\ tphase = "running"
    /\ c \in ttokens[i]
    /\ ttokens' = [ttokens EXCEPT ![i] = @ \ {c}]
    /\ UNCHANGED <<tphase, tissued, tsetup, texit>>
    /\ UNCHANGED <<threadVars, mountVars, coapVars>>

\* the thread body returns the EndToken made from its token
TEnd(i) ==
    /\ tphase = "running"
    /\ can_end(ttokens[i])
    /\ ttokens' = [k \in 1 .. Len(ttokens) - 1 |->
                      IF k < i THEN ttokens[k] ELSE ttokens[k + 1]]
    /\ tphase' = "ended"
    /\ texit' = "EndToken"
    /\ UNCHANGED <<tissued, tsetup>>
    /\ UNCHANGED <<threadVars, mountVars, coapVars>>

TokenNext ==
    \/ TStart
    \/ \E i \in DOMAIN ttokens, c \in Capabilities : TSetup(i, c)
    \/ \E i \in DOMAIN ttokens, c \in Capabilities : TForfeit(i, c)
    \/ \E i \in DOMAIN ttokens : TEnd(i)

TokenSpec == Init /\ [][TokenNext]_vars


(***************************************************************************)
(* The Status enum's discriminants: Stopped = STATUS_STOPPED as isize, ... *)
(***************************************************************************)
Status_discriminant(variant) ==
    CASE variant = "Stopped" -> STATUS_STOPPED
      [] variant = "Sleeping" -> STATUS_SLEEPING
      [] variant = "MutexBlocked" -> STATUS_MUTEX_BLOCKED
      [] variant = "ReceiveBlocked" -> STATUS_RECEIVE_BLOCKED
      [] variant = "SendBlocked" -> STATUS_SEND_BLOCKED
      [] variant = "ReplyBlocked" -> STATUS_REPLY_BLOCKED
      [] variant = "FlagBlockedAny" -> STATUS_FLAG_BLOCKED_ANY
      [] variant = "FlagBlockedAll" -> STATUS_FLAG_BLOCKED_ALL
      [] variant = "MboxBlocked" -> STATUS_MBOX_BLOCKED
      [] variant = "Running" -> STATUS_RUNNING
      [] variant = "Pending" -> STATUS_PENDING
      [] OTHER -> STATUS_NOT_FOUND

(***************************************************************************)
(* Properties                                                              *)
(***************************************************************************)
InRange(r) == PID_FIRST <= r /\ r <= PID_LAST

\* C1: for every raw integer r, new(r) is Some carrying r iff
\* PID_FIRST <= r <= PID_LAST, and None otherwise.  (IterSpec)
C1_NewSomeIffInRange ==
    last.op = "new" =>
        IF InRange(last.arg) THEN last.ret = Some(last.arg)
        ELSE last.ret = None

C1_Witness ==
    /\ last.op = "new" /\ last.arg = PID_LAST /\ last.ret = Some(PID_LAST)

\* C2: every KernelPID obtained through new, all_pids, get_pid or the
\* type's constructor carries a payload within [PID_FIRST, PID_LAST].  (Spec)
C2_EveryKernelPIDInRange ==
    (last.op \in {"new", "next", "get_pid", "KernelPID"} /\ last.ret[1] = "Some")
        => InRange(last.ret[2])

\* C3: in the C backend status(pid) is Err(NoSuchThread) iff the kernel's raw
\* status for pid is STATUS_NOT_FOUND, and every raw code that is neither the
\* sentinel nor one of the eleven recognized ones gives Ok(Other).  (StatusSpec)
C3_NoSuchThreadIffSentinel ==
    (backend = "riot_c" /\ last.op = "status") =>
        /\ (last.ret[1] = "Err") <=> (last.pre = STATUS_NOT_FOUND)
        /\ last.ret[1] = "Err" => last.ret = Err("NoSuchThread")
        /\ last.pre \notin (RecognizedCodes \cup {STATUS_NOT_FOUND})
             => last.ret = Ok("Other")

C3_Witness ==
    /\ backend = "riot_c" /\ last.op = "status"
    /\ last.pre \in UnrecognizedCodes /\ last.ret = Ok("Other")
    /\ \E p \in ThreadSlots : sched_threads[p] = NULL

\* C4: each of the eleven recognized raw codes decodes to the Status variant
\* whose discriminant is that code, so distinct codes give distinct variants.
\* (StatusSpec)
C4_RecognizedCodesDecode ==
    (backend = "riot_c" /\ last.op = "status" /\ last.pre \in RecognizedCodes) =>
        /\ last.ret[1] = "Ok"
        /\ last.ret[2] # "Other"
        /\ Status_discriminant(last.ret[2]) = last.pre

C4_Witness ==
    /\ backend = "riot_c" /\ last.op = "status"
    /\ last.pre = STATUS_RUNNING /\ last.ret = Ok("Running")

\* C5: stack_stats is Err(NoSuchThread) when the identifier denotes no thread
\* (whatever the flag), Err(InformationUnavailable) when the thread exists and
\* the flag is unset, Ok(StackStats) when the thread exists and the flag is
\* set.  (Spec)
C5_StackStatsPrecedence ==
    last.op = "stack_stats" =>
        IF last.pre = STATUS_NOT_FOUND THEN last.ret = Err("NoSuchThread")
        ELSE IF ~develhelp THEN last.ret = Err("InformationUnavailable")
        ELSE last.ret = Ok("StackStats")

\* C6: wakeup(pid) is Err(NoSuchThread) only when pid denotes no live thread
\* at the call.  (Spec)
C6_NoSuchThreadOnlyWithoutThread ==
    (last.op = "wakeup" /\ last.ret = Err("NoSuchThread"))
        => last.pre = STATUS_NOT_FOUND

\* C7: wakeup of a sleeping thread returns Ok, and a status() after a
\* successful wakeup does not report Sleeping unless the thread has slept
\* again (woken[p] is reset when p sleeps, ends or is created).  (Spec)
C7_WakeupSucceedsAndEndsSleep ==
    /\ (last.op = "wakeup" /\ last.pre = STATUS_SLEEPING) => last.ret = Ok("()")
    /\ (backend = "riot_c" /\ last.op = "status" /\ woken[last.arg])
          => (last.ret[1] = "Ok" /\ last.ret[2] # "Sleeping")

C7_Witness ==
    /\ backend = "riot_c" /\ last.op = "status" /\ woken[last.arg]
    /\ last.ret = Ok("Pending")

\* C8: a thread that called sleep() is sleeping and not running; a sleeping
\* thread's slot changes only in a wakeup call on its own identifier; no call
\* other than sleep() changes the caller's running state; and after a
\* successful wakeup the thread eventually runs under a fair scheduler.
\* (FairSpec)
C8_SleepSuspendsUntilWakeup ==
    /\ [](last.op = "sleep" =>
            /\ PreStatus(last.arg) = STATUS_SLEEPING
            /\ sched_active_pid # last.arg)
    /\ [](\A p \in Slots :
            PreStatus(p) = STATUS_SLEEPING => sched_active_pid # p)
    /\ [][\A p \in Slots :
            (PreStatus(p) = STATUS_SLEEPING /\ sched_threads'[p] # sched_threads[p])
                => (last'.op = "wakeup" /\ last'.arg = p)]_vars
    /\ [][(last'.op \notin {"none", "sleep"} /\ sched_active_pid # NoActiveThread)
            => /\ sched_active_pid' = sched_active_pid
               /\ sched_threads'[sched_active_pid] = sched_threads[sched_active_pid]]_vars
    /\ \A p \in Slots :
         (last.op = "wakeup" /\ last.arg = p /\ last.ret = Ok("()"))
            ~> (PreStatus(p) = STATUS_RUNNING)

C8_Witness ==
    \E p \in Slots :
        /\ woken[p]
        /\ PreStatus(p) = STATUS_RUNNING
        /\ sched_active_pid = p
        /\ \E q \in Slots : PreStatus(q) = STATUS_SLEEPING

\* C9: every wakeup call returns Ok or Err(NoSuchThread); the call that finds
\* its target sleeping makes it pending and returns Ok, and every other wakeup
\* call (a second, concurrent one included) leaves the whole thread table as
\* it was, so any number of wakeups leave the target as one wakeup does.
\* (Spec)
C9_WakeupIdempotent ==
    [][last'.op = "wakeup" =>
        IF PreStatus(last'.arg) = STATUS_SLEEPING
        THEN /\ last'.ret = Ok("()")
             /\ sched_threads' =
                  [sched_threads EXCEPT ![last'.arg] = thread_t(STATUS_PENDING)]
        ELSE /\ last'.ret \in {Ok("()"), Err("NoSuchThread")}
             /\ sched_threads' = sched_threads]_vars

C9_Witness ==
    /\ last.op = "wakeup"
    /\ last.ret = Err("NoSuchThread")
    /\ woken[last.arg]
    /\ last.pre = STATUS_PENDING

\* C10: the iterator all_pids() returns yields PID_FIRST, PID_FIRST+1, ... in
\* ascending order without repetition, ends (None) exactly after PID_LAST, and
\* a fresh all_pids() starts again at PID_FIRST with nothing yielded.
\* (IterSpec)
C10_AllPidsAscendingRange ==
    /\ yielded = [k \in 1 .. Len(yielded) |-> PID_FIRST + k - 1]
    /\ Len(yielded) <= PID_LAST - PID_FIRST + 1
    /\ last.op = "all_pids" => (iter # NoIter /\ iter[1] = PID_FIRST /\ yielded = <<>>)
    /\ last.op = "next" =>
         /\ last.ret[1] \in {"Some", "None"}
         /\ last.ret[1] = "Some" => last.ret[2] = yielded[Len(yielded)]
         /\ last.ret[1] = "None" => Len(yielded) = PID_LAST - PID_FIRST + 1

C10_Witness ==
    /\ last.op = "next"
    /\ last.ret = None
    /\ Len(yielded) = MaxThreads
    /\ yielded[Len(yielded)] = PID_LAST

\* C11: every identifier the all_pids() iterator produces passes new() again
\* and comes back unchanged, so the iterator's expect("Should be valid by
\* construction") never aborts.  (IterSpec)
C11_AllPidsRevalidate ==
    /\ last.op = "next" => last.ret[1] # "Panic"
    /\ \A k \in 1 .. Len(yielded) : new(yielded[k]) = Some(yielded[k])

C11_Witness ==
    /\ last.op = "next"
    /\ last.ret = Some(PID_LAST)
    /\ Len(yielded) = PID_LAST - PID_FIRST + 1
    /\ \A k \in 1 .. Len(yielded) : new(yielded[k]) = Some(yielded[k])

\* C12: a status, wakeup, priority, stack_stats or get_name call on a KernelPID
\* whose thread ends, or whose slot is reused, before the call completes
\* returns a typed result (Ok, Err, Some or None) and never aborts.
\* (QuerySpec)
C12_QueriesReturnTypedResult ==
    last.op \in {"status", "wakeup", "priority", "stack_stats", "get_name"}
        => last.ret[1] \in {"Ok", "Err", "Some", "None"}

\* C13: the two backends define the same operations, and for the same thread
\* table every operation gives the same outcome in both, the same error
\* value included (compared on the identifiers valid in both).  (Spec)
C13_BackendsEquivalent ==
    /\ riot_c_operations = riot_rs_operations
    /\ \A pid \in {p \in Slots : riot_c_new(p) # None /\ riot_rs_new(p) # None} :
         /\ riot_c_status(pid)[1] = riot_rs_status(pid)[1]
         /\ riot_c_stack_stats(pid) = riot_rs_stack_stats(pid)
         /\ \A utf8 \in BOOLEAN :
              riot_c_get_name(pid, utf8) = riot_rs_get_name(pid, utf8)

\* C15: a step that is a call of new, all_pids (or its iterator), get_name,
\* status, priority, stack_stats or get_pid leaves every slot of the kernel's
\* thread table, every priority and the active pid as they were; a wrapper
\* call that changes the table is a wakeup or a sleep; and a wakeup that
\* returns NoSuchThread changes nothing in the table.  (FrameSpec)
C15_QueriesLeaveTableUnchanged ==
    [][/\ last'.op \in {"new", "KernelPID", "all_pids", "next", "get_name",
                        "status", "priority", "stack_stats", "get_pid"}
            => UNCHANGED <<sched_threads, priority, sched_active_pid>>
       /\ (last'.op # "none"
             /\ <<sched_threads, priority, sched_active_pid>>'
                  # <<sched_threads, priority, sched_active_pid>>)
            => last'.op \in {"wakeup", "sleep"}
       /\ (last'.op = "wakeup" /\ last'.ret = Err("NoSuchThread"))
            => UNCHANGED <<sched_threads, priority, sched_active_pid>>]_vars

C15_Witness ==
    /\ last.op = "priority"
    /\ last.ret = Ok(THREAD_PRIORITY_MAIN)
    /\ \E p \in Slots : woken[p] /\ PreStatus(p) = STATUS_PENDING
    /\ Len(yielded) > 0

\* C16: a dropped MountIter has called vfs_closedir exactly once if its last
\* next() returned Some and not at all otherwise (never asked, or exhausted),
\* and no directory stays open; vfs_closedir is never applied to a directory
\* that is not open; after a next() that returned None the dir is zeroed, and
\* the next() after it yields the first mount point again.  (MountSpec)
C16_MountIterClosesOnce ==
    /\ [](miter = "dropped" =>
            /\ mcloses = (IF mlast[1] = "Some" THEN 1 ELSE 0)
            /\ \A m \in Mounts : open_files[m] = 0)
    /\ [](~mbadclose)
    /\ []((miter = "alive" /\ mlast = None) => is_zeroed(mdir))
    /\ []((miter = "alive" /\ mlast[1] = "Some") =>
            /\ mdir = open_on(mlast[2])
            /\ open_files[mlast[2]] = 1)
    /\ [][(miter = "alive" /\ miter' = "alive" /\ mlast = None /\ mlast' # None)
            => mlast' = Some(1)]_vars

C16_Witness ==
    /\ miter = "dropped"
    /\ mlast = Some(2)
    /\ mcloses = 1
    /\ nmounts = MaxMounts
    /\ ~mbadclose

\* C17: the mutex-wrapped handler never waits for the mutex (at each try_lock
\* it can take its step whoever holds the mutex); the response is the inner
\* handler's only if the lock was acquired in extract_request_data and again
\* in build_response, and is Service Unavailable with an empty payload
\* otherwise; and the handler does not hold the mutex between the two steps.
\* (CoapSpec)
C17_MutexedHandlerNeverBlocks ==
    /\ hpc \in {"idle", "extracted"} => ENABLED HandlerTryLock
    /\ hpc = "extracted" => mutex # "handler"
    /\ hpc = "building" => (locked_extract /\ locked_build)
    /\ hpc = "responded" =>
         IF locked_extract /\ locked_build
         THEN response.payload = "inner" /\ response.code \in InnerCodes
         ELSE response = service_unavailable

C17_Witness ==
    /\ hpc = "responded"
    /\ locked_extract
    /\ ~locked_build
    /\ mutex = "other"
    /\ response = service_unavailable

\* C14: a thread start hands out exactly one StartToken; the thread never
\* holds more than that one token and none once it has ended; each one-time
\* setup runs at most once per start, and only while the thread runs; and a
\* running thread ends only in the step that consumes its token for the
\* EndToken.  (TokenSpec)
C14_TokenLinearity ==
    /\ [](tphase = "running" => tissued = 1)
    /\ [](Len(ttokens) <= 1)
    /\ [](tphase # "running" => ttokens = <<>>)
    /\ [](\A c \in Capabilities : tsetup[c] <= 1)
    /\ [][(tsetup' # tsetup /\ tphase' = tphase) => tphase = "running"]_vars
    /\ [][(tphase = "running" /\ tphase' # "running") =>
            /\ tphase' = "ended"
            /\ texit' = "EndToken"
            /\ Len(ttokens') = Len(ttokens) - 1]_vars

C14_Witness ==
    /\ tphase = "ended"
    /\ texit = "EndToken"
    /\ tsetup["flag_semantics"] = 1
    /\ tsetup["message_semantics"] = 1
    /\ tsetup["message_queue"] = 0

=============================================================================
